---- MODULE Spec2Model ----
(***************************************************************************)
(* Model of token-core: the Bitcoin-fork transaction signer                *)
(* (tcx-btc-fork/src/transaction.rs), the CKB binary serializer            *)
(* (tcx-ckb/src/serializer.rs) and the V3 keystores                        *)
(* (rust/chain/src/keystore.rs).                                           *)
(*                                                                         *)
(* Strings that the code parses (derivation paths) are sequences of        *)
(* one-token strings; byte strings are sequences of 0..255.                *)
(* Rust's i64/u64 are modelled at width WordBits (TLC integers are 32-bit):*)
(* every i64 operation wraps or panics at that width exactly as the Rust   *)
(* operation does at 64.                                                   *)
(***************************************************************************)
EXTENDS Integers, Sequences, FiniteSets, TLC

VARIABLES
    \* ---- one call of TransactionSigner::sign_transaction for HdKeystore
    pc,         \* position of the call
    req,        \* the BitcoinForkTransaction and the password of the call
    result,     \* what the call returned: none yet, Ok, Err or a panic
    calls,      \* the operations the call has invoked so far, in order
    paths,      \* local paths
    prv_keys,   \* local priv_keys
    change_spk, \* local change_script_pubkey
    tx,         \* local tx, the unsigned transaction
    sigs,       \* local script_sigs / witnesses of the signing loop
    \* ---- one call of a Serializer function
    values,     \* the argument values
    ser_op,     \* which function was applied
    ser_ret,    \* its return value
    \* ---- a V3 keystore
    ks,         \* the keystore object (its stored fields)
    ks_in,      \* the arguments it was created from
    ks_res      \* the last operation on it and what it returned

sign_vars == <<pc, req, result, calls, paths, prv_keys, change_spk, tx, sigs>>
ser_vars == <<values, ser_op, ser_ret>>
ks_vars == <<ks, ks_in, ks_res>>
vars == <<sign_vars, ser_vars, ks_vars>>

----------------------------------------------------------------------------
(* Bounds *)

\* width at which i64 / u64 are modelled
WordBits == 12
\* most Utxos in one request
MaxUtxos == 2
\* most items in a list handed to the serializer, and most bytes in an item
MaxItems == 2
MaxItemLen == 2
\* the salts and initialization vectors Crypto::new may draw
MaxNonce == 2

----------------------------------------------------------------------------
(* Generic helpers *)

None == "None"

\* Option<T> of a record-valued T
Some(v) == [kind |-> "some", val |-> v]
Nothing == [kind |-> "nothing"]

Pow2(n) == 2 ^ n

RECURSIVE Concat(_)
\* concatenation of a sequence of sequences (Vec::extend in a loop, [a, b].concat())
Concat(ss) == IF ss = <<>> THEN <<>> ELSE Head(ss) \o Concat(Tail(ss))

Ok(v) == [kind |-> "ok", val |-> v]
Err(e) == [kind |-> "err", err |-> e]
Panic(m) == [kind |-> "panic", err |-> m]

----------------------------------------------------------------------------
(* Machine integers *)

I64Min == -Pow2(WordBits - 1)
I64Max == Pow2(WordBits - 1) - 1

\* two's-complement wrap of a mathematical integer into i64
WrapI64(x) == ((x + Pow2(WordBits - 1)) % Pow2(WordBits)) - Pow2(WordBits - 1)

\* x as u64 for an i64 x: the same bits read unsigned
AsU64(x) == x % Pow2(WordBits)

\* i64 a + b, a - b: with overflow checks (debug build) an overflow panics,
\* without them (release build) it wraps
AddI64(a, b, overflow_checks) ==
    IF a + b \in I64Min..I64Max THEN Ok(a + b)
    ELSE IF overflow_checks THEN Panic("attempt to add with overflow")
    ELSE Ok(WrapI64(a + b))

SubI64(a, b, overflow_checks) ==
    IF a - b \in I64Min..I64Max THEN Ok(a - b)
    ELSE IF overflow_checks THEN Panic("attempt to subtract with overflow")
    ELSE Ok(WrapI64(a - b))

\* u8 bitwise or 0x01 | x
Or1(x) == IF x % 2 = 1 THEN x ELSE x + 1

----------------------------------------------------------------------------
(* Strings the code parses: sequences of tokens *)

RECURSIVE TrimStart(_)
TrimStart(s) == IF s # <<>> /\ Head(s) = " " THEN TrimStart(Tail(s)) ELSE s

RECURSIVE TrimEnd(_)
TrimEnd(s) ==
    IF s # <<>> /\ s[Len(s)] = " " THEN TrimEnd(SubSeq(s, 1, Len(s) - 1)) ELSE s

\* str::trim
Trim(s) == TrimEnd(TrimStart(s))

\* str::replace(from, to) for one-token patterns
Replace(s, from, to) == [i \in 1..Len(s) |-> IF s[i] = from THEN to ELSE s[i]]

RECURSIVE SplitFrom(_, _, _)
\* the pieces of s cut at every sep, cur being the piece under construction
SplitFrom(s, sep, cur) ==
    IF s = <<>> THEN <<cur>>
    ELSE IF Head(s) = sep THEN <<cur>> \o SplitFrom(Tail(s), sep, <<>>)
    ELSE SplitFrom(Tail(s), sep, Append(cur, Head(s)))

\* str::split(sep).collect(): empty pieces are kept, "" gives one empty piece
Split(s, sep) == SplitFrom(s, sep, <<>>)

----------------------------------------------------------------------------
(* The request: BitcoinForkTransaction, Utxo, and the password argument *)

DUST == 546

\* txHash values Hash256::from_hex accepts (64 hex digits); any other panics
\* the unwrap in tx_inputs
ValidTxHashes == {"h1", "h2"}

Utxo(h, v, a, p, s) ==
    [tx_hash |-> h, vout |-> v, amount |-> a, address |-> "from_addr",
     script_pub_key |-> "76a914..88ac", derived_path |-> p, sequence |-> s]

\* the Utxos requests are built from
UtxoSamples ==
    { Utxo("h1", 0, 1000, <<"0", "/", "1">>, 0),
      Utxo("h2", 1, 546, <<" ", "1", "/", "0", " ">>, 7),
      Utxo("h1", 2, I64Max, <<"0", "/", "1">>, 0),
      Utxo("h2", 2, -1, <<"1", "/", "1">>, 0),
      Utxo("h1", 1, 1, <<"0", " ", "1">>, 0),
      Utxo("xyz", 0, 600, <<"0", "/", "1">>, 0),
      Utxo("h2", 0, 0, <<"0", "/", "1", "/", "0">>, 0) }

UtxoLists == UNION { [1..n -> UtxoSamples] : n \in 0..MaxUtxos }

Amounts == {-1, 0, 453, 454, 1001, I64Max}
Fees == {0, 1}
Coins == {"BCH", "LTC", "ETH", "DOGE"}
ToAddresses == {"to_addr", "not an address"}
Passwords == {None, "Insecure Pa55w0rd", "wrong"}

Requests ==
    [to : ToAddresses, amount : Amounts, unspents : UtxoLists, memo : {""},
     fee : Fees, change_idx : {0}, coin : Coins, is_seg_wit : BOOLEAN,
     password : Passwords]

----------------------------------------------------------------------------
(* The HdKeystore of the call and the collaborators outside transaction.rs *)

KeystorePassword == "Insecure Pa55w0rd"

\* the accounts of the keystore, by coin symbol; "DOGE" has none
Accounts ==
    [c \in {"BCH", "LTC", "ETH"} |->
        [derivation_path |->
            <<"m", "/", "44'", "/", IF c = "BCH" THEN "145'" ELSE IF c = "LTC" THEN "2'" ELSE "60'",
              "/", "0'", "/", "0", "/", "0">>,
         xpub |-> <<"xpub", c>>]]

\* HdKeystore::account
account(symbol) == IF symbol \in DOMAIN Accounts THEN Some(Accounts[symbol]) ELSE Nothing

RECURSIVE Join(_, _)
Join(pieces, sep) ==
    IF Len(pieces) = 0 THEN <<>>
    ELSE IF Len(pieces) = 1 THEN pieces[1]
    ELSE pieces[1] \o <<sep>> \o Join(Tail(pieces), sep)

\* tcx_chain::bips::get_account_path: m/purpose'/coin'/account' of a BIP44 path
get_account_path(path) ==
    LET comps == Split(path, "/") IN
    IF Len(comps) < 4 THEN Err("invalid_derivation_path")
    ELSE Ok(Join(SubSeq(comps, 1, 4), "/"))

\* a derivation path parses when every component after "m" is one index token
PathParses(path) ==
    LET comps == Split(path, "/") IN
    /\ Len(comps) >= 1 /\ comps[1] = <<"m">>
    /\ \A i \in 2..Len(comps) : Len(comps[i]) = 1 /\ comps[i][1] \notin {" ", "/", "m"}

PrvKey(path) == <<"prv", path>>
PubKey(prv) == <<"pub", prv>>
Hash160(bytes) == <<"hash160", bytes>>

\* HdKeystore::key_at_paths: decrypt the master secret with the password, then
\* derive one private key per path
key_at_paths(ps, password) ==
    IF password # KeystorePassword THEN Err("InvalidPassword")
    ELSE IF \E i \in 1..Len(ps) : ~PathParses(ps[i]) THEN Err("DerivationError")
    ELSE Ok([i \in 1..Len(ps) |-> PrvKey(ps[i])])

\* crate::address::network_from_coin: the chain parameters of a coin
network_from_coin(coin) ==
    IF coin = "BCH" THEN Some([coin |-> "BCH", fork_id |-> 64])
    ELSE IF coin = "LTC" THEN Some([coin |-> "LTC", fork_id |-> 0])
    ELSE Nothing

\* BtcForkAddress::from_str(..).script_pubkey()
AddressScript(addr) ==
    IF addr = "not an address" THEN Err("invalid_address") ELSE Ok(<<"spk", addr>>)

----------------------------------------------------------------------------
(* transaction.rs: the functions of BitcoinForkTransaction *)

RECURSIVE CollectPaths(_, _, _)
\* the loop of collect_prv_keys_paths: the first Utxo whose derived path does
\* not split into two pieces ends it with an error
CollectPaths(unspents, account_path, acc) ==
    IF unspents = <<>> THEN Ok(acc)
    ELSE LET derived_path == Trim(Head(unspents).derived_path)
             path_with_space == Replace(derived_path, "/", " ")
             path_idxs == Split(path_with_space, " ")
         IN  IF Len(path_idxs) # 2 THEN Err("derived path must be x/x")
             ELSE CollectPaths(Tail(unspents), account_path,
                               Append(acc, account_path \o <<"/">> \o derived_path))

collect_prv_keys_paths(self, path) ==
    LET account_path == get_account_path(path) IN
    IF account_path.kind # "ok" THEN account_path
    ELSE CollectPaths(self.unspents, account_path.val, <<>>)

receive_script_pubkey(self) == AddressScript(self.to)

\* network_from_coin(&self.coin).ok_or(Error::UnsupportedChain)
fork_id(self) ==
    LET network == network_from_coin(self.coin) IN
    IF network = Nothing THEN Err("UnsupportedChain") ELSE Ok(network.val.fork_id)

\* the suffix is the bare SIGHASH_ALL byte: the fork id of the coin is left out
sign_hash_and_pub_key_no_fork_id(self, pri_key, hash, sign_ok) ==
    IF ~sign_ok THEN Err("sign_failed")
    ELSE LET fid == fork_id(self) IN
         IF fid.kind # "ok" THEN fid
         ELSE LET signature_bytes == << <<"sig", pri_key, hash>> >>
                  raw_bytes == <<1>>
                  sig_bytes == Concat(<<signature_bytes, raw_bytes>>)
                  pub_key_bytes == PubKey(pri_key)
              IN  Ok(<<sig_bytes, pub_key_bytes>>)

\* sign_ok: whether pri_key.sign(&hash) succeeds
sign_hash_and_pub_key(self, pri_key, hash, sign_ok) ==
    IF ~sign_ok THEN Err("sign_failed")
    ELSE LET fid == fork_id(self) IN
         IF fid.kind # "ok" THEN fid
         ELSE LET signature_bytes == << <<"sig", pri_key, hash>> >>
                  raw_bytes == <<Or1(fid.val)>>
                  sig_bytes == Concat(<<signature_bytes, raw_bytes>>)
                  pub_key_bytes == PubKey(pri_key)
              IN  Ok(<<sig_bytes, pub_key_bytes>>)

\* unspents.first().expect("first_utxo") panics on an empty list
change_address(self, xpub) ==
    IF Len(self.unspents) = 0 THEN Panic("first_utxo")
    ELSE LET from == self.unspents[1].address
             change_path == <<"0", "/", self.change_idx>>
             pub_key == <<"pub_at", xpub, change_path>>
         IN  Ok(<<"address_like", from, pub_key>>)

RECURSIVE SumAmounts(_, _, _)
\* for unspent in &self.unspents { total_amount += unspent.amount; }
SumAmounts(unspents, total_amount, overflow_checks) ==
    IF unspents = <<>> THEN Ok(total_amount)
    ELSE LET r == AddI64(total_amount, Head(unspents).amount, overflow_checks) IN
         IF r.kind # "ok" THEN r
         ELSE SumAmounts(Tail(unspents), r.val, overflow_checks)

tx_outs(self, change_script_pubkey, overflow_checks) ==
    LET total_amount == SumAmounts(self.unspents, 0, overflow_checks) IN
    IF total_amount.kind # "ok" THEN total_amount ELSE
    LET need == AddI64(self.amount, self.fee, overflow_checks) IN
    IF need.kind # "ok" THEN need ELSE
    IF ~(total_amount.val >= need.val) THEN Err("total amount must ge amount + fee") ELSE
    LET rsp == receive_script_pubkey(self) IN
    IF rsp.kind # "ok" THEN rsp ELSE
    LET receiver_tx_out == [value |-> AsU64(self.amount), script_pubkey |-> rsp.val]
        minus_amount == SubI64(total_amount.val, self.amount, overflow_checks)
    IN
    IF minus_amount.kind # "ok" THEN minus_amount ELSE
    LET change_amount == SubI64(minus_amount.val, self.fee, overflow_checks) IN
    IF change_amount.kind # "ok" THEN change_amount ELSE
    IF change_amount.val > DUST
    THEN Ok(<<receiver_tx_out,
              [value |-> AsU64(change_amount.val), script_pubkey |-> change_script_pubkey]>>)
    ELSE Ok(<<receiver_tx_out>>)

\* the sequence number 0xFFFFFFFF
SEQUENCE_FINAL == "0xFFFFFFFF"

\* every input referencing the previous output of the first Utxo
tx_inputs_first_utxo(self) ==
    IF \E i \in 1..Len(self.unspents) : self.unspents[i].tx_hash \notin ValidTxHashes
    THEN Panic("unwrap on Err")
    ELSE Ok([i \in 1..Len(self.unspents) |->
                [previous_output |-> [txid |-> self.unspents[1].tx_hash,
                                      vout |-> self.unspents[1].vout],
                 script_sig |-> <<>>,
                 sequence |-> SEQUENCE_FINAL,
                 witness |-> <<>>]])

\* Hash256::from_hex(&unspent.tx_hash).unwrap() panics on a txHash that is not
\* a 32-byte hex hash; vout as u32 of the requests' (non-negative) vout
tx_inputs(self) ==
    IF \E i \in 1..Len(self.unspents) : self.unspents[i].tx_hash \notin ValidTxHashes
    THEN Panic("unwrap on Err")
    ELSE Ok([i \in 1..Len(self.unspents) |->
                [previous_output |-> [txid |-> self.unspents[i].tx_hash,
                                      vout |-> self.unspents[i].vout],
                 script_sig |-> <<>>,
                 sequence |-> SEQUENCE_FINAL,
                 witness |-> <<>>]])

\* one iteration of the loop of script_sigs_sign
script_sig_at(self, utx, keys, i, sign_ok) ==
    LET pub_key == PubKey(keys[i])
        fid == fork_id(self)
    IN
    IF fid.kind # "ok" THEN fid ELSE
    LET network == network_from_coin(self.coin) IN
    IF network = Nothing THEN Err("UnsupportedChain") ELSE
    LET script == <<"p2pkh", pub_key, network.val.coin>>
        hash == <<"signature_hash", utx, i, script, Or1(fid.val)>>
        script_sig_and_pub_key == sign_hash_and_pub_key(self, keys[i], hash, sign_ok)
    IN
    IF script_sig_and_pub_key.kind # "ok" THEN script_sig_and_pub_key
    ELSE Ok(<< <<"push", script_sig_and_pub_key.val[1]>>,
               <<"push", script_sig_and_pub_key.val[2]>> >>)

\* one iteration of the loop of witness_sign
witness_at(self, utx, keys, i, sign_ok) ==
    LET tx_in == utx.input[i]
        unspent == self.unspents[i]
        pub_key == PubKey(keys[i])
        fid == fork_id(self)
    IN
    IF fid.kind # "ok" THEN fid ELSE
    LET script == <<"76a914", Hash160(pub_key), "88ac">>
        hash == <<"sighash_all", utx, tx_in, script, AsU64(unspent.amount), Or1(fid.val)>>
    IN  sign_hash_and_pub_key(self, keys[i], hash, sign_ok)

\* the segwit branch leaving signature and public key in the unlocking script
\* as well as in the witness
input_with_sigs_script_and_witness(self, utx, keys, signed) ==
    IF self.is_seg_wit
    THEN [i \in 1..Len(utx.input) |->
            [utx.input[i] EXCEPT
                !.script_sig = << <<"push", signed[i][1]>>, <<"push", signed[i][2]>> >>,
                !.witness = <<signed[i][1], signed[i][2]>>]]
    ELSE [i \in 1..Len(utx.input) |->
            [utx.input[i] EXCEPT !.script_sig = signed[i], !.witness = <<>>]]

\* the signed inputs built by sign_transaction from the signing loop's output
input_with_sigs(self, utx, keys, signed) ==
    IF self.is_seg_wit
    THEN [i \in 1..Len(utx.input) |->
            [utx.input[i] EXCEPT
                !.script_sig = <<22, 0, 20, Hash160(PubKey(keys[i]))>>,
                !.witness = <<signed[i][1], signed[i][2]>>]]
    ELSE [i \in 1..Len(utx.input) |->
            [utx.input[i] EXCEPT !.script_sig = signed[i], !.witness = <<>>]]

\* bitcoin::consensus::serialize: the witness format is used when an input
\* carries witness data
serialize(t) ==
    [format |-> IF \E i \in 1..Len(t.input) : t.input[i].witness # <<>>
                THEN "witness" ELSE "legacy",
     version |-> t.version, input |-> t.input, output |-> t.output,
     lock_time |-> t.lock_time]

\* Transaction::txid: the double hash of the serialization without witnesses
txid(t) ==
    <<"sha256d", t.version,
      [i \in 1..Len(t.input) |-> [t.input[i] EXCEPT !.witness = <<>>]],
      t.output, t.lock_time>>

\* the tail of sign_transaction: assemble, serialize, return
signed_result(self, utx, keys, signed) ==
    LET signed_tx == [version |-> utx.version, lock_time |-> utx.lock_time,
                      input |-> input_with_sigs(self, utx, keys, signed),
                      output |-> utx.output]
    IN  Ok([signature |-> serialize(signed_tx),
            tx_hash |-> txid(signed_tx),
            wtx_id |-> ""])

----------------------------------------------------------------------------
(* TransactionSigner::sign_transaction for HdKeystore, step by step *)

NoResult == [kind |-> "none"]

\* the statements reordered: the keys are derived before the paths are resolved
NextStep_KeysBeforePaths(step) ==
    CASE step = "account" -> "password"
      [] step = "password" -> "keys"
      [] step = "keys" -> "paths"
      [] step = "paths" -> "change_address"
      [] step = "change_address" -> "build"
      [] step = "build" -> "sign"
      [] step = "sign" -> "done"

\* the order of the statements of the call: the position after each step
\* that succeeds
NextStep(step) ==
    CASE step = "account" -> "paths"
      [] step = "paths" -> "password"
      [] step = "password" -> "keys"
      [] step = "keys" -> "change_address"
      [] step = "change_address" -> "build"
      [] step = "build" -> "sign"
      [] step = "sign" -> "done"

\* the call returns r (an Err by `?`, a panic, or the final Ok): its locals
\* are dropped
Return(r) ==
    /\ result' = r
    /\ pc' = "done"
    /\ paths' = <<>>
    /\ prv_keys' = <<>>
    /\ change_spk' = None
    /\ tx' = None
    /\ sigs' = <<>>

SignInit ==
    /\ pc = "idle"
    /\ req = None
    /\ result = NoResult
    /\ calls = <<>>
    /\ paths = <<>>
    /\ prv_keys = <<>>
    /\ change_spk = None
    /\ tx = None
    /\ sigs = <<>>

\* a caller invokes keystore.sign_transaction(&tx, password)
Call ==
    /\ UNCHANGED <<ser_vars, ks_vars>>
    /\ pc = "idle"
    /\ \E r \in Requests : req' = r
    /\ pc' = "account"
    /\ UNCHANGED <<result, calls, paths, prv_keys, change_spk, tx, sigs>>

\* self.account(tx.coin.to_uppercase()).ok_or(format_err!("account_not_found"))?
\* (the coin symbols of Coins are upper-case already)
LookupAccount ==
    /\ UNCHANGED <<ser_vars, ks_vars>>
    /\ pc = "account"
    /\ calls' = Append(calls, "account")
    /\ IF account(req.coin) = Nothing
       THEN Return(Err("account_not_found"))
       ELSE /\ pc' = NextStep("account")
            /\ UNCHANGED <<result, paths, prv_keys, change_spk, tx, sigs>>
    /\ UNCHANGED req

\* let paths = tx.collect_prv_keys_paths(path)?
ResolvePaths ==
    /\ UNCHANGED <<ser_vars, ks_vars>>
    /\ pc = "paths"
    /\ calls' = Append(calls, "collect_prv_keys_paths")
    /\ LET r == collect_prv_keys_paths(req, account(req.coin).val.derivation_path) IN
       IF r.kind # "ok"
       THEN Return(r)
       ELSE /\ paths' = r.val
            /\ pc' = NextStep("paths")
            /\ UNCHANGED <<result, prv_keys, change_spk, tx, sigs>>
    /\ UNCHANGED req

\* tcx_ensure!(password.is_some(), tcx_crypto::Error::InvalidPassword)
CheckPassword ==
    /\ UNCHANGED <<ser_vars, ks_vars>>
    /\ pc = "password"
    /\ calls' = Append(calls, "password_is_some")
    /\ IF req.password = None
       THEN Return(Err("InvalidPassword"))
       ELSE /\ pc' = NextStep("password")
            /\ UNCHANGED <<result, paths, prv_keys, change_spk, tx, sigs>>
    /\ UNCHANGED req

\* let priv_keys = &self.key_at_paths(coin, &paths, password.unwrap())?
KeyAtPaths ==
    /\ UNCHANGED <<ser_vars, ks_vars>>
    /\ pc = "keys"
    /\ calls' = Append(calls, "key_at_paths")
    /\ LET r == key_at_paths(paths, req.password) IN
       IF r.kind # "ok"
       THEN Return(r)
       ELSE /\ prv_keys' = r.val
            /\ pc' = NextStep("keys")
            /\ UNCHANGED <<result, paths, change_spk, tx, sigs>>
    /\ UNCHANGED req

\* let xpub = extra.xpub()?; let change_addr = tx.change_address(&xpub)?
\* (every account of Accounts holds an extended public key)
ChangeAddress ==
    /\ UNCHANGED <<ser_vars, ks_vars>>
    /\ pc = "change_address"
    /\ calls' = Append(calls, "change_address")
    /\ LET r == change_address(req, account(req.coin).val.xpub) IN
       IF r.kind # "ok"
       THEN Return(r)
       ELSE /\ change_spk' = <<"spk", r.val>>
            /\ pc' = NextStep("change_address")
            /\ UNCHANGED <<result, paths, prv_keys, tx, sigs>>
    /\ UNCHANGED req

\* BitcoinForkTransaction::sign_transaction up to the unsigned transaction:
\* tx_outs(..)?, tx_inputs(), version, Transaction { .. }
BuildTx ==
    /\ UNCHANGED <<ser_vars, ks_vars>>
    /\ pc = "build"
    /\ \E overflow_checks \in BOOLEAN :
        LET outs == tx_outs(req, change_spk, overflow_checks)
            ins == tx_inputs(req)
        IN
        IF outs.kind # "ok"
        THEN /\ calls' = Append(calls, "tx_outs")
             /\ Return(outs)
        ELSE /\ calls' = calls \o <<"tx_outs", "tx_inputs">>
             /\ IF ins.kind # "ok"
                THEN Return(ins)
                ELSE /\ tx' = [version |-> IF req.is_seg_wit THEN 2 ELSE 1,
                               lock_time |-> 0,
                               input |-> ins.val,
                               output |-> outs.val]
                     /\ pc' = NextStep("build")
                     /\ UNCHANGED <<result, paths, prv_keys, change_spk, sigs>>
    /\ UNCHANGED req

\* the loop swallowing a signing error: an empty entry is pushed and the loop
\* goes on
sign_loop_step_swallow(self, utx, keys, signed, sign_ok) ==
    LET i == Len(signed) + 1
        r == IF self.is_seg_wit
             THEN witness_at(self, utx, keys, i, sign_ok)
             ELSE script_sig_at(self, utx, keys, i, sign_ok)
    IN  IF r.kind # "ok"
        THEN Ok(Append(signed, IF self.is_seg_wit THEN << <<>>, <<>> >> ELSE <<>>))
        ELSE Ok(Append(signed, r.val))

\* one iteration of the loop of witness_sign / script_sigs_sign, for input
\* Len(signed) + 1: the value pushed, or the error that ? returns from it
sign_loop_step(self, utx, keys, signed, sign_ok) ==
    LET i == Len(signed) + 1
        r == IF self.is_seg_wit
             THEN witness_at(self, utx, keys, i, sign_ok)
             ELSE script_sig_at(self, utx, keys, i, sign_ok)
    IN  IF r.kind # "ok" THEN r ELSE Ok(Append(signed, r.val))

SignInput ==
    /\ UNCHANGED <<ser_vars, ks_vars>>
    /\ pc = "sign"
    /\ Len(sigs) < Len(tx.input)
    /\ \E sign_ok \in BOOLEAN :
        LET r == sign_loop_step(req, tx, prv_keys, sigs, sign_ok) IN
        IF r.kind # "ok"
        THEN /\ calls' = Append(calls, "sign_failed")
             /\ Return(r)
        ELSE /\ calls' = Append(calls, "signed")
             /\ sigs' = r.val
             /\ UNCHANGED <<pc, result, paths, prv_keys, change_spk, tx>>
    /\ UNCHANGED req

\* the loop is over: assemble the signed transaction, serialize, return Ok
Assemble ==
    /\ UNCHANGED <<ser_vars, ks_vars>>
    /\ pc = "sign"
    /\ Len(sigs) = Len(tx.input)
    /\ calls' = Append(calls, "assemble")
    /\ Return(signed_result(req, tx, prv_keys, sigs))
    /\ UNCHANGED req

Next ==
    \/ Call
    \/ LookupAccount
    \/ ResolvePaths
    \/ CheckPassword
    \/ KeyAtPaths
    \/ ChangeAddress
    \/ BuildTx
    \/ SignInput
    \/ Assemble

SerIdle == values = <<>> /\ ser_op = None /\ ser_ret = None
NoOp == [op |-> "none"]

\* no keystore has been created
KsIdle == ks = Nothing /\ ks_in = Nothing /\ ks_res = NoOp

Init == SignInit /\ SerIdle /\ KsIdle

Spec == Init /\ [][Next]_vars

----------------------------------------------------------------------------
(* Properties of the signing call *)

RECURSIVE MathSum(_)
\* the sum of the Utxo amounts as a mathematical integer
MathSum(unspents) ==
    IF unspents = <<>> THEN 0 ELSE Head(unspents).amount + MathSum(Tail(unspents))

InsufficientFunds == Err("total amount must ge amount + fee")

Invoked(op) == \E i \in 1..Len(calls) : calls[i] = op

Before(a, b) ==
    \A i \in 1..Len(calls) : calls[i] = b => \E j \in 1..(i - 1) : calls[j] = a

\* a request in which nothing but the funds can make the call fail: the
\* account exists, every derived path is x/x, the password is the keystore's,
\* every txHash is a hash, the destination is an address, the coin has chain
\* parameters
OtherwiseValid(r) ==
    /\ account(r.coin) # Nothing
    /\ network_from_coin(r.coin) # Nothing
    /\ r.password = KeystorePassword
    /\ r.to = "to_addr"
    /\ \A i \in 1..Len(r.unspents) :
        /\ r.unspents[i].tx_hash \in ValidTxHashes
        /\ Len(Split(Trim(r.unspents[i].derived_path), "/")) = 2
        /\ PathParses(<<"m", "/">> \o Trim(r.unspents[i].derived_path))

\* C1: a signing call fails with the insufficient-funds error if and only if
\* the sum of the Utxo amounts is less than amount + fee (stated for the
\* requests that nothing but the funds can make fail, the empty Utxo list
\* included, and for calls whose every signature succeeds).
C1_InsufficientFundsIff ==
    (pc = "done" /\ OtherwiseValid(req) /\ ~Invoked("sign_failed"))
        => ((result = InsufficientFunds)
                <=> (MathSum(req.unspents) < req.amount + req.fee))

\* C2: in every successfully signed transaction the outputs are the destination
\* output of value amount, followed by a change output of value
\* total - amount - fee if and only if total - amount - fee > 546.
C2_ChangeIffAboveDust ==
    (pc = "done" /\ result.kind = "ok") =>
        LET outs == result.val.signature.output
            change == MathSum(req.unspents) - req.amount - req.fee
        IN  /\ Len(outs) = IF change > 546 THEN 2 ELSE 1
            /\ outs[1].value = req.amount
            /\ Len(outs) = 2 => outs[2].value = change

FullPath(r, i) ==
    get_account_path(account(r.coin).val.derivation_path).val
        \o <<"/">> \o Trim(r.unspents[i].derived_path)

\* sig is a signature made with key, followed by the one hash-type byte
IsSignatureBy(sig, key) ==
    /\ Len(sig) = 2
    /\ Len(sig[1]) = 3 /\ sig[1][1] = "sig" /\ sig[1][2] = key

\* input inp of a returned transaction carries the signature and the public
\* key of Utxo i: in the script (legacy) or in the witness (segwit)
InputSigned(inp, r, i) ==
    LET key == PrvKey(FullPath(r, i)) IN
    IF r.is_seg_wit
    THEN /\ Len(inp.witness) = 2
         /\ IsSignatureBy(inp.witness[1], key)
         /\ inp.witness[2] = PubKey(key)
    ELSE /\ Len(inp.script_sig) = 2
         /\ Len(inp.script_sig[1]) = 2
         /\ IsSignatureBy(inp.script_sig[1][2], key)
         /\ inp.script_sig[2] = <<"push", PubKey(key)>>

\* C4: a signing call never exposes a partially signed transaction: nothing is
\* returned while it runs, and it ends either with an error that carries no
\* transaction data (the signatures computed before a failing input are
\* dropped) or with a transaction in which every input is signed.
C4_NoPartialSigning ==
    /\ pc # "done" => result = NoResult
    /\ pc = "done" => result.kind \in {"ok", "err", "panic"}
    /\ result.kind \in {"err", "panic"} =>
        /\ DOMAIN result = {"kind", "err"}
        /\ sigs = <<>> /\ tx = None
    /\ result.kind = "ok" =>
        LET t == result.val.signature IN
        /\ Len(t.input) = Len(req.unspents)
        /\ \A i \in 1..Len(t.input) : InputSigned(t.input[i], req, i)

\* the signing of an input failed after an earlier input had been signed
C4_Witness ==
    /\ pc = "done"
    /\ result.kind = "err"
    /\ Invoked("signed")
    /\ Invoked("sign_failed")

\* C5: every failure of a signing call is returned as an error value; the
\* call never panics (an empty Utxo list and a txHash that is not a hash
\* included).
C5_NeverPanics == result.kind # "panic"

----------------------------------------------------------------------------
(* Properties of the result and of the signed transaction *)

\* the call has returned a signed transaction
Signed == pc = "done" /\ result.kind = "ok"

\* C11: the result of a successful signing call carries the witness
\* transaction id: a non-empty id when the segwit flag is set, the empty
\* string when it is not.
C11_WitnessTransactionId ==
    Signed =>
        IF req.is_seg_wit THEN result.val.wtx_id # "" ELSE result.val.wtx_id = ""

\* a derived path made of exactly two pieces separated by one "/" (blanks
\* around the path aside)
TwoComponents(p) == Len(Split(Trim(p), "/")) = 2

\* path resolution has returned Ok: the call went on to the password check
PathsResolved == pc = "password" \/ Invoked("password_is_some")

\* path resolution has returned an error and the call ended with it
PathsFailed ==
    /\ pc = "done"
    /\ calls[Len(calls)] = "collect_prv_keys_paths"
    /\ result.kind = "err"

\* C12: path resolution succeeds if and only if every Utxo's derived path
\* consists of exactly two "/"-separated components; otherwise (one component,
\* three or more, or a separator other than "/" as in "0 1") it fails with an
\* error; on success it returns one full path per Utxo, in Utxo order, equal
\* to the account path, "/" and the Utxo's derived path.
C12_PathsIffTwoComponents ==
    Invoked("collect_prv_keys_paths") =>
        /\ PathsResolved <=>
            \A i \in 1..Len(req.unspents) : TwoComponents(req.unspents[i].derived_path)
        /\ ~PathsResolved => PathsFailed
        /\ pc = "password" =>
            paths = [i \in 1..Len(req.unspents) |-> FullPath(req, i)]

\* the signature bytes (with their suffix) that a signed input carries: the
\* first witness item (segwit) or the first push of the script (legacy)
SignatureOf(inp, r) ==
    IF r.is_seg_wit THEN inp.witness[1] ELSE inp.script_sig[1][2]

\* the hash type that was passed to the computation of signature hash h
HashTypeOf(h) == h[Len(h)]

IsWitnessProgramPush(script, pub_key) ==
    /\ Len(script) = 4
    /\ script[1] = 22 /\ script[2] = 0 /\ script[3] = 20
    /\ script[4] = Hash160(pub_key)

\* the unlocking script of a legacy input: the push of the signature with its
\* hash-type suffix, then the push of the public key
IsSigAndKeyPushes(script, key) ==
    /\ Len(script) = 2
    /\ Len(script[1]) = 2 /\ script[1][1] = "push"
    /\ IsSignatureBy(script[1][2], key)
    /\ script[2] = <<"push", PubKey(key)>>

\* C14: the segwit flag alone decides where the signatures are, for all inputs
\* of a signed transaction alike: with the flag set every input's witness
\* holds exactly the signature (with hash-type suffix) and the public key and
\* its unlocking script is only the push of the witness program; with the
\* flag unset every input's witness is empty and its unlocking script is the
\* push of the signature followed by the push of the public key. No signed
\* transaction mixes the two shapes.
C14_SegwitDecidesShape ==
    Signed =>
        LET t == result.val.signature IN
        \A i \in 1..Len(t.input) :
            LET inp == t.input[i]
                key == PrvKey(FullPath(req, i))
            IN  IF req.is_seg_wit
                THEN /\ Len(inp.witness) = 2
                     /\ IsSignatureBy(inp.witness[1], key)
                     /\ inp.witness[2] = PubKey(key)
                     /\ IsWitnessProgramPush(inp.script_sig, PubKey(key))
                ELSE /\ Len(inp.witness) = 0
                     /\ IsSigAndKeyPushes(inp.script_sig, key)

\* a segwit transaction with two inputs, signed by two different keys, was
\* returned
C14_Witness ==
    /\ Signed
    /\ req.is_seg_wit
    /\ Len(result.val.signature.input) = 2
    /\ result.val.signature.input[1].witness # result.val.signature.input[2].witness
    /\ result.val.signature.format = "witness"

\* C15: assembling the signed transaction changes only the unlocking script
\* and the witness of each input: the signed transaction has one input per
\* Utxo in Utxo order, each with the previous-output hash and index of its
\* Utxo and the sequence number 0xFFFFFFFF whatever the Utxo's own sequence
\* field is, and its outputs, lock time (0) and version (2 with the segwit
\* flag, otherwise 1) are those of the unsigned transaction.
C15_AssembleKeepsFrame ==
    [][(pc = "sign" /\ result'.kind = "ok") =>
        LET unsigned == tx
            signed == result'.val.signature
        IN  /\ Len(unsigned.input) = Len(req.unspents)
            /\ Len(signed.input) = Len(req.unspents)
            /\ \A i \in 1..Len(signed.input) :
                /\ [signed.input[i] EXCEPT !.script_sig = <<>>, !.witness = <<>>]
                        = unsigned.input[i]
                /\ signed.input[i].previous_output =
                        [txid |-> req.unspents[i].tx_hash, vout |-> req.unspents[i].vout]
                /\ signed.input[i].sequence = SEQUENCE_FINAL
            /\ signed.output = unsigned.output
            /\ signed.lock_time = unsigned.lock_time
            /\ signed.lock_time = 0
            /\ signed.version = unsigned.version
            /\ signed.version = IF req.is_seg_wit THEN 2 ELSE 1
    ]_vars

\* a transaction with two outputs was signed whose two inputs spend different
\* previous outputs, the second from a Utxo that has a sequence field of its own
C15_Witness ==
    /\ Signed
    /\ Len(req.unspents) = 2
    /\ req.unspents[2].sequence = 7
    /\ req.unspents[1].tx_hash # req.unspents[2].tx_hash
    /\ result.val.signature.input[2].sequence = SEQUENCE_FINAL
    /\ Len(result.val.signature.output) = 2

RECURSIVE SumValues(_)
\* the sum of the values of a list of outputs
SumValues(outs) ==
    IF outs = <<>> THEN 0 ELSE Head(outs).value + SumValues(Tail(outs))

\* C16: for all i64 values of amount, fee and Utxo amounts, every successfully
\* signed transaction has as output values the non-negative requested amount
\* and (if present) the non-negative change; the sum of its output values
\* plus the fee never exceeds the sum of the Utxo amounts; the value left to
\* the miner beyond the stated fee is between 0 and 546 when the change output
\* is omitted and exactly 0 when it is present.
C16_ValueConservation ==
    Signed =>
        LET outs == result.val.signature.output
            total == MathSum(req.unspents)
            left == total - SumValues(outs) - req.fee
        IN  /\ req.amount >= 0
            /\ outs[1].value = req.amount
            /\ Len(outs) = 2 => outs[2].value = total - req.amount - req.fee
            /\ SumValues(outs) + req.fee <= total
            /\ IF Len(outs) = 1 THEN left \in 0..546 ELSE left = 0

----------------------------------------------------------------------------
(* serializer.rs *)

\* the byte values items are made of
ItemBytes == {18, 255}

Items == UNION { [1..n -> ItemBytes] : n \in 0..MaxItemLen }
ValueLists == UNION { [1..n -> Items] : n \in 0..MaxItems }

RECURSIVE OffsetsUpTo(_, _, _)
\* offsets after k iterations of the loop of calculate_offsets:
\* offsets.push(offsets[i] + element_lengths[i])
OffsetsUpTo(element_lengths, header_length, k) ==
    IF k = 0 THEN <<header_length>>
    ELSE LET offsets == OffsetsUpTo(element_lengths, header_length, k - 1) IN
         Append(offsets, offsets[k] + element_lengths[k])

RECURSIVE TotalUpTo(_, _, _)
\* total after k iterations: total = total + element_lengths[i]
TotalUpTo(element_lengths, header_length, k) ==
    IF k = 0 THEN header_length
    ELSE TotalUpTo(element_lengths, header_length, k - 1) + element_lengths[k]

\* (total, offsets); the u32 sums stay far below 2^32 for the lists modelled
calculate_offsets(element_lengths) ==
    LET header_length == 4 * 4 * Len(element_lengths) IN
    << TotalUpTo(element_lengths, header_length, Len(element_lengths)),
       OffsetsUpTo(element_lengths, header_length, Len(element_lengths)) >>

\* LittleEndian::write_u32 into a 4-byte buffer
serialize_u32(value) == [k \in 1..4 |-> (value \div (256 ^ (k - 1))) % 256]

serialize_struct(vals) == Ok(Concat(vals))

serialize_dynamic_vec(vals) ==
    LET body == Concat(vals)
        element_lengths == [i \in 1..Len(vals) |-> Len(vals[i])]
        offsets == calculate_offsets(element_lengths)
    IN  Ok(serialize_u32(offsets[1])
            \o Concat([i \in 1..Len(offsets[2]) |-> serialize_u32(offsets[2][i])])
            \o body)

RECURSIVE TotalSize(_, _)
\* for item in values.iter() { total_size = total_size + item.len() as u32; .. }
TotalSize(vals, total_size) ==
    IF vals = <<>> THEN total_size
    ELSE TotalSize(Tail(vals), total_size + Len(Head(vals)))

\* the header counting its own four bytes
serialize_fixed_vec_counts_header(vals) ==
    Ok(serialize_u32(TotalSize(vals, 4)) \o Concat(vals))

serialize_fixed_vec(vals) ==
    LET total_size == TotalSize(vals, 0)
        body == Concat(vals)
    IN  Ok(serialize_u32(total_size) \o body)

SerInit ==
    /\ values \in ValueLists
    /\ ser_op = None
    /\ ser_ret = None

SerializeStruct ==
    /\ ser_op = None
    /\ ser_op' = "serialize_struct"
    /\ ser_ret' = serialize_struct(values)
    /\ UNCHANGED <<values, sign_vars, ks_vars>>

SerializeFixedVec ==
    /\ ser_op = None
    /\ ser_op' = "serialize_fixed_vec"
    /\ ser_ret' = serialize_fixed_vec(values)
    /\ UNCHANGED <<values, sign_vars, ks_vars>>

SerializeDynamicVec ==
    /\ ser_op = None
    /\ ser_op' = "serialize_dynamic_vec"
    /\ ser_ret' = serialize_dynamic_vec(values)
    /\ UNCHANGED <<values, sign_vars, ks_vars>>

SerNext ==
    \/ SerializeStruct
    \/ SerializeFixedVec
    \/ SerializeDynamicVec

SerSpecInit == SignInit /\ SerInit /\ KsIdle

SerSpec == SerSpecInit /\ [][SerNext]_vars

----------------------------------------------------------------------------
(* Properties of the serializer *)

\* the little-endian word at byte offset 4 * w of bytes
WordAt(bytes, w) ==
    bytes[4 * w + 1] + 256 * bytes[4 * w + 2] + 65536 * bytes[4 * w + 3]
        + 16777216 * bytes[4 * w + 4]

\* the bytes of the items before item i
LenBefore(vals, i) == Len(Concat(SubSeq(vals, 1, i - 1)))

\* C7: serialize_dynamic_vec of n items gives n + 1 header words and then the
\* items in order; word 0 = 4 + 4n, word i = word i-1 + length of item i-1,
\* and the last header word is the total length of the encoding.
C7_OffsetsFromHeaderLength ==
    ser_op = "serialize_dynamic_vec" =>
        LET n == Len(values)
            ret == ser_ret.val
        IN  /\ ser_ret.kind = "ok"
            /\ Len(ret) = 4 * (n + 1) + Len(Concat(values))
            /\ WordAt(ret, 0) = 4 + 4 * n
            /\ \A i \in 1..n : WordAt(ret, i) = WordAt(ret, i - 1) + Len(values[i])
            /\ WordAt(ret, n) = Len(ret)
            /\ SubSeq(ret, 4 * (n + 1) + 1, Len(ret)) = Concat(values)

\* C8: serialize_dynamic_vec of the empty list is the four bytes 04 00 00 00.
C8_EmptyDynamicVec ==
    (ser_op = "serialize_dynamic_vec" /\ values = <<>>) => ser_ret = Ok(<<4, 0, 0, 0>>)

\* C9: serialize_dynamic_vec of n items gives one word holding the total
\* length of the encoding, then n words holding the position at which each
\* item starts (the first being 4 + 4n), then the items in order: 4 + 4n +
\* sum of the item lengths bytes in all.
C9_TotalThenItemStarts ==
    ser_op = "serialize_dynamic_vec" =>
        LET n == Len(values)
            ret == ser_ret.val
        IN  /\ ser_ret.kind = "ok"
            /\ Len(ret) = 4 + 4 * n + Len(Concat(values))
            /\ WordAt(ret, 0) = Len(ret)
            /\ \A i \in 1..n : WordAt(ret, i) = 4 + 4 * n + LenBefore(values, i)
            /\ SubSeq(ret, 4 + 4 * n + 1, Len(ret)) = Concat(values)

\* C10: serialize_fixed_vec gives a little-endian word equal to the sum of the
\* item lengths (its own four bytes not counted) and then the items in order;
\* serialize_struct gives the items in order with no header.
C10_FixedVecAndStruct ==
    /\ ser_op = "serialize_fixed_vec" =>
        /\ ser_ret.kind = "ok"
        /\ Len(ser_ret.val) = 4 + Len(Concat(values))
        /\ WordAt(ser_ret.val, 0) = Len(Concat(values))
        /\ SubSeq(ser_ret.val, 5, Len(ser_ret.val)) = Concat(values)
        /\ \A i \in 1..Len(values) :
            SubSeq(ser_ret.val, 5 + LenBefore(values, i),
                   4 + LenBefore(values, i) + Len(values[i])) = values[i]
    /\ ser_op = "serialize_struct" =>
        /\ ser_ret.kind = "ok"
        /\ Len(ser_ret.val) = Len(Concat(values))
        /\ \A i \in 1..Len(values) :
            SubSeq(ser_ret.val, 1 + LenBefore(values, i),
                   LenBefore(values, i) + Len(values[i])) = values[i]

\* serialize_fixed_vec was applied to two different non-empty items
C10_Witness ==
    /\ ser_op = "serialize_fixed_vec"
    /\ Len(values) = 2
    /\ values[1] # values[2]
    /\ Len(values[1]) > 0 /\ Len(values[2]) > 0
    /\ ser_ret.kind = "ok"

----------------------------------------------------------------------------
(* tcx_crypto::Crypto<Pbkdf2Params>, as spec.md 4.3 describes it: the key is  *)
(* derived from the password and the stored salt, the secret is encrypted    *)
(* under it with a random IV, and a MAC over key and cipher text is stored.  *)
(* The KDF, the cipher and the MAC are ideal: equal outputs mean equal       *)
(* inputs.                                                                   *)

DeriveKey(password, kdfparams) == <<"pbkdf2", password, kdfparams.salt>>

Encrypt(key, iv, plain) == [sealed_with |-> key, iv |-> iv, plain |-> plain]

Decrypt(key, iv, cipher_text) ==
    IF cipher_text.sealed_with = key /\ cipher_text.iv = iv
    THEN cipher_text.plain
    ELSE <<"garbage", key, iv>>

Mac(key, cipher_text) == <<"mac", key, cipher_text>>

\* Crypto::new(password, origin), with the salt and IV it draws
Crypto_new(password, origin, salt, iv) ==
    LET kdfparams == [salt |-> salt]
        key == DeriveKey(password, kdfparams)
        cipher_text == Encrypt(key, iv, origin)
    IN  [kdfparams |-> kdfparams,
         cipherparams |-> [iv |-> iv],
         ciphertext |-> cipher_text,
         mac |-> Mac(key, cipher_text)]

\* Crypto::decrypt(password)
Crypto_decrypt(crypto, password) ==
    LET key == DeriveKey(password, crypto.kdfparams) IN
    IF Mac(key, crypto.ciphertext) # crypto.mac
    THEN Err("InvalidPassword")
    ELSE Ok(Decrypt(key, crypto.cipherparams.iv, crypto.ciphertext))

\* Crypto::derive_enc_pair(password, origin)
Crypto_derive_enc_pair(crypto, password, origin, iv) ==
    [enc_str |-> Encrypt(DeriveKey(password, crypto.kdfparams), iv, origin),
     nonce |-> iv]

----------------------------------------------------------------------------
(* keystore.rs *)

KsPasswords == {"Insecure Pa55w0rd", "wrong", ""}

\* WIF strings, as their bytes; PrivateKey::from_wif accepts the valid ones
ValidWifs == {<<76, 49, 117>>, <<99, 83>>}
Wifs == ValidWifs \cup {<<33>>}

\* mnemonic phrases, as their bytes; Mnemonic::from_phrase accepts the valid ones
ValidMnemonics == {<<105, 110>>}
Mnemonics == ValidMnemonics \cup {<<120>>}

\* derivation paths; DerivationPath::from_str accepts the valid ones
ValidDerivationPaths == {"m/44'/60'/0'/0/0"}
DerivationPaths == ValidDerivationPaths \cup {"44/x"}

\* the 32 bytes of the key derived from a mnemonic at a path (PrivateKey::to_bytes
\* of derive_priv), cut to three
PrivateKeyBytes(mnemonic, path) == <<mnemonic[1], 10, 171>>

HexDigits == <<"0", "1", "2", "3", "4", "5", "6", "7", "8", "9", "a", "b", "c", "d", "e", "f">>

\* bitcoin_hashes::hex::ToHex: two lower-case digits per byte
ToHex(bytes) ==
    Concat([i \in 1..Len(bytes) |->
                <<HexDigits[(bytes[i] \div 16) + 1], HexDigits[(bytes[i] % 16) + 1]>>])

\* PrivateKey::from_wif(wif).unwrap() panics on a string that is no WIF
generate_address_from_wif(wif) ==
    IF wif \notin ValidWifs THEN Panic("unwrap on Err") ELSE Ok(<<"p2pkh", wif>>)

Metadata_default ==
    [name |-> "BCH", password_hint |-> "", chain_type |-> "BCH", timestamp |-> 0,
     network |-> "MAINNET", source |-> "MNEMONIC", mode |-> "NORMAL",
     wallet_type |-> "HD", seg_wit |-> "NONE"]

V3Keystore_new(password, prv_key, salt, iv) ==
    LET crypto == Crypto_new(password, prv_key, salt, iv)
        metadata == [Metadata_default EXCEPT !.source = "WIF"]
        address == generate_address_from_wif(prv_key)
    IN  IF address.kind # "ok" THEN address
        ELSE Ok([kind |-> "V3Keystore",
                 id |-> "uuid",
                 version |-> 3,
                 address |-> address.val,
                 crypto |-> crypto,
                 metadata |-> metadata])

\* the password argument dropped: the cipher text is decrypted with ""
decrypt_cipher_text_empty_password(self, password) == Crypto_decrypt(self.crypto, "")

\* Keystore::decrypt_cipher_text for V3Keystore
decrypt_cipher_text(self, password) == Crypto_decrypt(self.crypto, password)

generate_prv_key_from_mnemonic(mnemonic_str, path) ==
    IF mnemonic_str \notin ValidMnemonics THEN Err("invalid_mnemonic")
    ELSE IF path \notin ValidDerivationPaths THEN Panic("unwrap on Err")
    ELSE Ok(PrivateKeyBytes(mnemonic_str, path))

V3MnemonicKeystore_new(password, mnemonic, path, salt, iv) ==
    LET prv_key == generate_prv_key_from_mnemonic(mnemonic, path) IN
    IF prv_key.kind # "ok" THEN prv_key
    ELSE LET crypto == Crypto_new(password, prv_key.val, salt, iv)
             enc_mnemonic == Crypto_derive_enc_pair(crypto, password, mnemonic, iv)
         IN  Ok([kind |-> "V3MnemonicKeystore",
                 id |-> "uuid",
                 version |-> 3,
                 address |-> <<"p2pkh", prv_key.val>>,
                 crypto |-> crypto,
                 mnemonic_path |-> path,
                 enc_mnemonic |-> enc_mnemonic])

export_private_key(self, password) ==
    LET pk_bytes == Crypto_decrypt(self.crypto, password) IN
    IF pk_bytes.kind # "ok" THEN pk_bytes ELSE Ok(ToHex(pk_bytes.val))

\* V3Keystore::new(password, prv_key)
NewV3Keystore ==
    /\ ks = Nothing /\ ks_res = NoOp
    /\ \E password \in KsPasswords, prv_key \in Wifs, salt \in 1..MaxNonce, iv \in 1..MaxNonce :
        LET r == V3Keystore_new(password, prv_key, salt, iv) IN
        /\ ks_res' = [op |-> "V3Keystore::new", password |-> password, ret |-> r,
                      before |-> ks]
        /\ IF r.kind = "ok"
           THEN ks' = r.val /\ ks_in' = [password |-> password, secret |-> prv_key]
           ELSE UNCHANGED <<ks, ks_in>>
    /\ UNCHANGED <<sign_vars, ser_vars>>

\* V3MnemonicKeystore::new(password, mnemonic, path)
NewV3MnemonicKeystore ==
    /\ ks = Nothing /\ ks_res = NoOp
    /\ \E password \in KsPasswords, mnemonic \in Mnemonics, path \in DerivationPaths,
          salt \in 1..MaxNonce, iv \in 1..MaxNonce :
        LET r == V3MnemonicKeystore_new(password, mnemonic, path, salt, iv) IN
        /\ ks_res' = [op |-> "V3MnemonicKeystore::new", password |-> password,
                      ret |-> r, before |-> ks]
        /\ IF r.kind = "ok"
           THEN /\ ks' = r.val
                /\ ks_in' = [password |-> password,
                             secret |-> PrivateKeyBytes(mnemonic, path)]
           ELSE UNCHANGED <<ks, ks_in>>
    /\ UNCHANGED <<sign_vars, ser_vars>>

\* keystore.decrypt_cipher_text(password), on &self
DecryptCipherText ==
    /\ ks.kind = "V3Keystore"
    /\ \E password \in KsPasswords :
        ks_res' = [op |-> "decrypt_cipher_text", password |-> password,
                   ret |-> decrypt_cipher_text(ks, password), before |-> ks]
    /\ UNCHANGED <<ks, ks_in, sign_vars, ser_vars>>

\* keystore.export_private_key(password), on &self
ExportPrivateKey ==
    /\ ks.kind = "V3MnemonicKeystore"
    /\ \E password \in KsPasswords :
        ks_res' = [op |-> "export_private_key", password |-> password,
                   ret |-> export_private_key(ks, password), before |-> ks]
    /\ UNCHANGED <<ks, ks_in, sign_vars, ser_vars>>

KsNext ==
    \/ NewV3Keystore
    \/ NewV3MnemonicKeystore
    \/ DecryptCipherText
    \/ ExportPrivateKey

KsSpec == Init /\ [][KsNext]_vars

----------------------------------------------------------------------------
(* Properties of the keystores *)

====
